---- MODULE Spec2Model ----
(***************************************************************************)
(* A model of the git agent: the three tool handlers                       *)
(* (generate_commit_message, git_commit, git_push), the LLM node, the      *)
(* conditional routing and the tool node of the agent graph.               *)
(*                                                                         *)
(* The repository holds three iterations of the same script.  The model    *)
(* keeps them apart in the variable `variant`:                             *)
(*    "index2"    src/index2.js                                            *)
(*    "part_000"  src/unnamed/part_000                                     *)
(*    "part_001"  src/unnamed/part_001                                     *)
(*                                                                         *)
(* A JavaScript string is a sequence of chunks (TLA+ strings); the empty   *)
(* string is the empty sequence, and concatenation is \o.  The code points *)
(* U+274C and U+2705 that open the handlers' result strings are written    *)
(* "[x]" and "[ok]".                                                       *)
(***************************************************************************)
EXTENDS Naturals, Sequences, FiniteSets, TLC

VARIABLES variant, repo, input, messages, pc, calls, nextId, stats, probe

vars == <<variant, repo, input, messages, pc, calls, nextId, stats, probe>>

(***************************************************************************)
(* Bounds of the model.                                                    *)
(***************************************************************************)
\* The LLM emits a response that routes to the tool node only while the
\* conversation, with one result per request, stays within this length.
MaxMessages == 6
\* The largest number of untracked files in the working tree.
MaxFiles == 2

(***************************************************************************)
(* Strings.                                                                *)
(***************************************************************************)
Str(s) == IF s = "" THEN <<>> ELSE <<s>>

Whitespace == {"", " ", "\n", "\n\n"}

\* String.prototype.trim() leaves the empty string
Blank(text) == \A i \in 1..Len(text) : text[i] \in Whitespace

Return(v) == [kind |-> "return", value |-> v]
Throw(v) == [kind |-> "throw", value |-> v]

(***************************************************************************)
(* The working tree, and the outcomes of the shell commands.               *)
(***************************************************************************)
Variants == {"index2", "part_000", "part_001"}

FileNames == <<"a.txt", "b.txt", "c.txt", "d.txt">>

\* cat of an untracked file ("b.txt" is an empty file)
Content(f) == IF f = "a.txt" THEN "hello" ELSE IF f = "b.txt" THEN "" ELSE "text"

StagedDiffs == {"", "diff --git a/s b/s"}
UnstagedDiffs == {"", "diff --git a/u b/u"}

Repos ==
  { [staged |-> s, unstaged |-> u, untracked |-> SubSeq(FileNames, 1, n)] :
      s \in StagedDiffs, u \in UnstagedDiffs, n \in 0..MaxFiles }

CleanRepo == [staged |-> "", unstaged |-> "", untracked |-> <<>>]

Range(seq) == { seq[i] : i \in 1..Len(seq) }

\* One outcome (exit status 0 or not) per shell command of a handler.
AllOk ==
  [cached |-> TRUE, diff |-> TRUE, ls |-> TRUE, catFail |-> {},
   commit |-> TRUE, branch |-> TRUE, push |-> TRUE]

GenOutcomes(r) ==
  { [AllOk EXCEPT !.cached = c, !.diff = d, !.ls = l, !.catFail = cf] :
      c \in BOOLEAN, d \in BOOLEAN, l \in BOOLEAN, cf \in SUBSET Range(r.untracked) }

CommitOutcomes == { [AllOk EXCEPT !.commit = c] : c \in BOOLEAN }

PushOutcomes == { [AllOk EXCEPT !.branch = b, !.push = p] : b \in BOOLEAN, p \in BOOLEAN }

\* execSync(cmd): the command's stdout, or an Error whose message names the command
execSync(cmd, ok, out) ==
  IF ok THEN Return(out) ELSE Throw(<<"Command failed: ", cmd>>)

\* The LLM call of a handler or of the LLM node: a response or a rejection.
LLMOutcomes ==
  { [ok |-> TRUE, content |-> "Update files", err |-> ""],
    [ok |-> FALSE, content |-> "", err |-> "fetch failed"] }

(***************************************************************************)
(* generate_commit_message: the diff collector.                            *)
(***************************************************************************)
NewFileBlock(file, content) ==
  <<"\n\n--- New file: ", file, " ---\n">> \o Str(content) \o <<"\n">>

\* index2.js: every command in its own try/catch with an empty catch block
RECURSIVE UntrackedBlocks(_, _)
UntrackedBlocks(files, sh) ==
  IF files = <<>> THEN <<>>
  ELSE LET file == Head(files)
           c == execSync("cat", file \notin sh.catFail, Str(Content(file)))
       IN (IF c.kind = "return" THEN NewFileBlock(file, Content(file)) ELSE <<>>)
          \o UntrackedBlocks(Tail(files), sh)

CollectIndex2(r, sh) ==
  LET cached == execSync("git diff --cached", sh.cached, Str(r.staged))
      diff0 == IF cached.kind = "return" THEN cached.value ELSE <<>>
      unst == execSync("git diff", sh.diff, Str(r.unstaged))
      diff1 == diff0 \o (IF unst.kind = "return" THEN unst.value ELSE <<>>)
      ls == execSync("git ls-files --others --exclude-standard", sh.ls, r.untracked)
      untrackedFiles == IF ls.kind = "return" THEN ls.value ELSE <<>>
  IN Return(diff1 \o UntrackedBlocks(untrackedFiles, sh))

\* part_000: the commands share the handler's one try block
RECURSIVE UntrackedBlocksThrowing(_, _, _)
UntrackedBlocksThrowing(files, sh, diff) ==
  IF files = <<>> THEN Return(diff)
  ELSE LET file == Head(files)
           c == execSync("cat", file \notin sh.catFail, Str(Content(file)))
       IN IF c.kind = "throw" THEN c
          ELSE UntrackedBlocksThrowing(Tail(files), sh,
                                       diff \o NewFileBlock(file, Content(file)))

\* the shell's `git diff --cached || git diff`: the second command runs only
\* when the first exits non-zero
CollectPart000(r, sh) ==
  LET first == execSync("git diff --cached || git diff",
                        sh.cached \/ sh.diff,
                        IF sh.cached THEN Str(r.staged) ELSE Str(r.unstaged))
      ls == execSync("git ls-files --others --exclude-standard", sh.ls, r.untracked)
  IN IF first.kind = "throw" THEN first
     ELSE IF ls.kind = "throw" THEN ls
     ELSE UntrackedBlocksThrowing(ls.value, sh, first.value)

CollectDiff(v, r, sh) ==
  IF v = "index2" THEN CollectIndex2(r, sh) ELSE CollectPart000(r, sh)

(***************************************************************************)
(* The three tool handlers.  A handler's run ends in a value of kind       *)
(* "return" or "throw"; generate_commit_message may first suspend at its   *)
(* one await (kind "await", the value being the text sent to the LLM).     *)
(***************************************************************************)
NoChanges == <<"No changes detected.">>
GenerateFailed == "[x] Failed to generate commit message: "
CommitFailed == "[x] Commit failed: "
CommitOk == "[ok] Commit successful with message: \""
PushFailed == "[x] Push failed: "
PushOk == "[ok] Push successful"

GenerateBody_NoCheck(v, r, sh) ==
  LET diff == CollectDiff(v, r, sh)
  IN IF diff.kind = "throw" THEN diff
     ELSE [kind |-> "await", value |-> diff.value]

\* the handler's try block up to `await llm.invoke(...)`
GenerateBody(v, r, sh) ==
  LET diff == CollectDiff(v, r, sh)
  IN IF diff.kind = "throw" THEN diff
     ELSE IF Blank(diff.value) THEN Return(NoChanges)
     ELSE [kind |-> "await", value |-> diff.value]

\* the handler's catch block
GenerateCatch(r) ==
  IF r.kind = "throw" THEN Return(<<GenerateFailed>> \o r.value) ELSE r

generateCommitMessage(v, r, sh) == GenerateCatch(GenerateBody(v, r, sh))

\* the handler from the settling of llm.invoke on: `return response.content`
generateCommitMessageResume(llm) ==
  GenerateCatch(IF llm.ok THEN Return(<<llm.content>>) ELSE Throw(<<llm.err>>))

\* the handler's try block
GitCommitBody(message, sh) ==
  LET e == execSync("git add . && git commit -m", sh.commit, <<>>)
  IN IF e.kind = "throw" THEN e ELSE Return(<<CommitOk, message, "\"">>)

gitCommit(message, sh) ==
  LET r == GitCommitBody(message, sh)
  IN IF r.kind = "throw" THEN Return(<<CommitFailed>> \o r.value) ELSE r

\* the handler's try block; index2.js asks for the current branch first, the
\* two other files only push
GitPushBody(v, sh) ==
  LET branch == IF v = "index2"
                THEN execSync("git branch --show-current", sh.branch, <<"main\n">>)
                ELSE Return(<<>>)
      push == execSync("git push", sh.push, <<>>)
  IN IF branch.kind = "throw" THEN branch
     ELSE IF push.kind = "throw" THEN push
     ELSE Return(<<PushOk>>)

gitPush_NoCatch(v, sh) == GitPushBody(v, sh)

gitPush(v, sh) ==
  LET r == GitPushBody(v, sh)
  IN IF r.kind = "throw" THEN Return(<<PushFailed>> \o r.value) ELSE r

\* The working tree after the handler's shell commands.
RepoAfterCommit(r, sh) == IF sh.commit THEN CleanRepo ELSE r

\* const tools = [...]
tools(v) ==
  IF v = "part_001" THEN {"git_commit", "git_push"}
  ELSE {"generate_commit_message", "git_commit", "git_push"}

CommitMessages == {"testing git here"}

(***************************************************************************)
(* The handlers called on their own, on every working tree and every       *)
(* outcome of their shell commands and LLM call.  probe records the call:  *)
(* the tree before it, the outcomes, the text the collector built (when it *)
(* got that far), the LLM calls issued and the handler's result.           *)
(***************************************************************************)
\* Counters of a run: the LLM node's runs, the LLM turns routed to the tool
\* node, the tool handlers run.
NoStats == [llm |-> 0, routed |-> 0, execs |-> 0]

NoProbe ==
  [tool |-> "none", phase |-> "idle", sh |-> AllOk, before |-> CleanRepo,
   collected |-> FALSE, text |-> <<>>, llmCalls |-> 0, llmOk |-> TRUE,
   result |-> Return(<<>>)]

ToolInit ==
  /\ variant \in Variants
  /\ repo \in Repos
  /\ input = <<>>
  /\ messages = <<>>
  /\ pc = "awaiting-llm"
  /\ calls = <<>>
  /\ nextId = 0
  /\ stats = NoStats
  /\ probe = NoProbe

CallGenerate ==
  /\ probe.phase # "awaiting"
  /\ "generate_commit_message" \in tools(variant)
  /\ \E sh \in GenOutcomes(repo) :
       LET diff == CollectDiff(variant, repo, sh)
           r == generateCommitMessage(variant, repo, sh)
       IN probe' = [tool |-> "generate_commit_message",
                    phase |-> IF r.kind = "await" THEN "awaiting" ELSE "settled",
                    sh |-> sh, before |-> repo,
                    collected |-> diff.kind = "return",
                    text |-> IF diff.kind = "return" THEN diff.value ELSE <<>>,
                    llmCalls |-> IF r.kind = "await" THEN 1 ELSE 0,
                    llmOk |-> TRUE,
                    result |-> r]
  /\ UNCHANGED <<variant, repo, input, messages, pc, calls, nextId, stats>>

SettleGenerate ==
  /\ probe.phase = "awaiting"
  /\ \E llm \in LLMOutcomes :
       probe' = [probe EXCEPT !.phase = "settled", !.llmOk = llm.ok,
                              !.result = generateCommitMessageResume(llm)]
  /\ UNCHANGED <<variant, repo, input, messages, pc, calls, nextId, stats>>

CallCommit ==
  /\ probe.phase # "awaiting"
  /\ \E sh \in CommitOutcomes, message \in CommitMessages :
       /\ probe' = [NoProbe EXCEPT !.tool = "git_commit", !.phase = "settled",
                                   !.sh = sh, !.before = repo,
                                   !.result = gitCommit(message, sh)]
       /\ repo' = RepoAfterCommit(repo, sh)
  /\ UNCHANGED <<variant, input, messages, pc, calls, nextId, stats>>

CallPush ==
  /\ probe.phase # "awaiting"
  /\ \E sh \in PushOutcomes :
       probe' = [NoProbe EXCEPT !.tool = "git_push", !.phase = "settled",
                                !.sh = sh, !.before = repo,
                                !.result = gitPush(variant, sh)]
  /\ UNCHANGED <<variant, repo, input, messages, pc, calls, nextId, stats>>

ToolNext == CallGenerate \/ SettleGenerate \/ CallCommit \/ CallPush

ToolSpec == ToolInit /\ [][ToolNext]_vars

(***************************************************************************)
(* The conversation.                                                       *)
(***************************************************************************)
NoToolCalls == [defined |-> FALSE, list |-> <<>>]

Message(role, content, tool_calls, tool_call_id) ==
  [role |-> role, content |-> content, tool_calls |-> tool_calls,
   tool_call_id |-> tool_call_id]

UserMessage(content) == Message("user", <<content>>, NoToolCalls, 0)

\* The conversations agentBuilder.invoke is called on.
Inputs ==
  { <<UserMessage("Please commit the recent changes and push them.")>>,
    <<UserMessage("Please commit with message \"testing git here\" and push the changes."),
      UserMessage("Thanks.")>> }

ToolNames == {"generate_commit_message", "git_commit", "git_push"}

\* The requests of one LLM response: each tool at most once, in any order.
ToolCallLists ==
  { ns \in UNION { [1..n -> ToolNames] : n \in 1..Cardinality(ToolNames) } :
      \A i, j \in DOMAIN ns : i # j => ns[i] # ns[j] }

ToolCall(name, id) ==
  [name |-> name,
   message |-> IF name = "git_commit" THEN "testing git here" ELSE "",
   id |-> id]

\* The responses of llmWithTools.invoke on a conversation of length len: a
\* plain answer (tool_calls missing, or empty), or a list of requests.
Responses(len, id) ==
  { Message("assistant", <<"Done.">>, NoToolCalls, 0) }
    \cup { Message("assistant", <<"Done.">>, [defined |-> TRUE, list |-> <<>>], 0) :
             x \in { y \in {0} : len + 1 <= MaxMessages } }
    \cup { Message("assistant", <<>>,
                   [defined |-> TRUE,
                    list |-> [i \in 1..Len(ns) |-> ToolCall(ns[i], id + i)]], 0) :
             ns \in { l \in ToolCallLists : len + 1 + Len(l) <= MaxMessages } }

(***************************************************************************)
(* The agent graph: __start__ -> llmCall -> (toolNode -> llmCall)* -> end. *)
(***************************************************************************)
\* MessagesAnnotation: a node's messages are appended to the state's
messagesStateReducer(left, right) == left \o right

llmCall_Resend(state, result) == [messages |-> state.messages \o <<result>>]

\* the LLM node's update, given the response of llmWithTools.invoke
llmCall(state, result) == [messages |-> <<result>>]

shouldContinue_Truthy(state) ==
  LET lastMessage == state.messages[Len(state.messages)]
  IN IF state.messages # <<>> /\ lastMessage.tool_calls.defined
     THEN "toolNode" ELSE "__end__"

shouldContinue_TurnLimit(state) ==
  LET lastMessage == state.messages[Len(state.messages)]
      asked == { i \in 1..Len(state.messages) : state.messages[i].role = "assistant" }
  IN IF /\ state.messages # <<>>
        /\ lastMessage.tool_calls.defined
        /\ Len(lastMessage.tool_calls.list) > 0
        /\ Cardinality(asked) < 2
     THEN "toolNode" ELSE "__end__"

\* lastMessage?.tool_calls?.length
shouldContinue(state) ==
  LET lastMessage == state.messages[Len(state.messages)]
  IN IF /\ state.messages # <<>>
        /\ lastMessage.tool_calls.defined
        /\ Len(lastMessage.tool_calls.list) > 0
     THEN "toolNode" ELSE "__end__"

\* The tool node's calls, one per request of the last message.
Slots(message) ==
  [i \in 1..Len(message.tool_calls.list) |->
     [call |-> message.tool_calls.list[i], status |-> "pending",
      result |-> <<>>, execs |-> 0]]

ToolNotFound(name) ==
  <<"Error: Tool \"", name, "\" not found.", "\n Please fix your mistakes.">>

ToolOutputs_SkipUnknown(cs) ==
  SelectSeq([i \in 1..Len(cs) |->
               Message("tool", cs[i].result, NoToolCalls, cs[i].call.id)],
            LAMBDA m : m.content = <<>> \/ Head(m.content) # "Error: Tool \"")

\* The tool node's update: one tool message per call, in the order requested.
ToolOutputs(cs) ==
  [i \in 1..Len(cs) |-> Message("tool", cs[i].result, NoToolCalls, cs[i].call.id)]

Init ==
  /\ variant \in Variants
  /\ repo \in Repos
  /\ input \in Inputs
  /\ messages = input
  /\ pc = "awaiting-llm"
  /\ calls = <<>>
  /\ nextId = 0
  /\ stats = NoStats
  /\ probe = NoProbe

\* llmWithTools.invoke rejects: llmCall rejects, and so does agentBuilder.invoke
LlmCallFails ==
  /\ pc = "awaiting-llm"
  /\ pc' = "failed"
  /\ stats' = [stats EXCEPT !.llm = @ + 1]
  /\ UNCHANGED <<variant, repo, input, messages, calls, nextId, probe>>

\* llmCall, its update applied to the state, and the conditional edge
LlmCall ==
  /\ pc = "awaiting-llm"
  /\ \E result \in Responses(Len(messages), nextId) :
       LET update == llmCall([messages |-> messages], result)
           next == messagesStateReducer(messages, update.messages)
           route == shouldContinue([messages |-> next])
       IN /\ messages' = next
          /\ pc' = IF route = "toolNode" THEN "awaiting-tool" ELSE "done"
          /\ calls' = IF route = "toolNode" THEN Slots(next[Len(next)]) ELSE <<>>
          /\ nextId' = nextId + Len(result.tool_calls.list)
          /\ stats' = [stats EXCEPT !.llm = @ + 1,
                                    !.routed = IF route = "toolNode" THEN @ + 1 ELSE @]
  /\ UNCHANGED <<variant, repo, input, probe>>

\* The first call not yet started.
NextPending ==
  CHOOSE i \in 1..Len(calls) :
    /\ calls[i].status = "pending"
    /\ \A j \in 1..(i - 1) : calls[j].status # "pending"

Finish(i, result) ==
  calls' = [calls EXCEPT ![i].status = "finished", ![i].result = result,
                         ![i].execs = @ + 1]

\* The tool node starts the calls of the turn in the order requested
\* (Promise.all over tool_calls.map); a handler runs to its end or to its await.
ToolStart ==
  /\ pc = "awaiting-tool"
  /\ \E k \in 1..Len(calls) : calls[k].status = "pending"
  /\ LET i == NextPending
         name == calls[i].call.name
     IN \/ /\ name \notin tools(variant)
           /\ calls' = [calls EXCEPT ![i].status = "finished",
                                     ![i].result = ToolNotFound(name)]
           /\ UNCHANGED <<repo, stats>>
        \/ /\ name \in tools(variant)
           /\ name = "generate_commit_message"
           /\ \E sh \in GenOutcomes(repo) :
                LET r == generateCommitMessage(variant, repo, sh)
                IN IF r.kind = "await"
                   THEN calls' = [calls EXCEPT ![i].status = "suspended",
                                               ![i].execs = @ + 1]
                   ELSE Finish(i, r.value)
           /\ stats' = [stats EXCEPT !.execs = @ + 1]
           /\ UNCHANGED repo
        \/ /\ name \in tools(variant)
           /\ name = "git_commit"
           /\ \E sh \in CommitOutcomes :
                /\ Finish(i, gitCommit(calls[i].call.message, sh).value)
                /\ repo' = RepoAfterCommit(repo, sh)
           /\ stats' = [stats EXCEPT !.execs = @ + 1]
        \/ /\ name \in tools(variant)
           /\ name = "git_push"
           /\ \E sh \in PushOutcomes : Finish(i, gitPush(variant, sh).value)
           /\ stats' = [stats EXCEPT !.execs = @ + 1]
           /\ UNCHANGED repo
  /\ UNCHANGED <<variant, input, messages, pc, nextId, probe>>

\* llm.invoke of a suspended generate_commit_message settles
ToolResume ==
  /\ pc = "awaiting-tool"
  /\ \E i \in 1..Len(calls), llm \in LLMOutcomes :
       /\ calls[i].status = "suspended"
       /\ calls' = [calls EXCEPT ![i].status = "finished",
                                 ![i].result = generateCommitMessageResume(llm).value]
  /\ UNCHANGED <<variant, repo, input, messages, pc, nextId, stats, probe>>

\* every call has settled: the tool node's update is applied, edge to llmCall
ToolNodeReturn ==
  /\ pc = "awaiting-tool"
  /\ \A i \in 1..Len(calls) : calls[i].status = "finished"
  /\ messages' = messagesStateReducer(messages, ToolOutputs(calls))
  /\ pc' = "awaiting-llm"
  /\ UNCHANGED <<variant, repo, input, calls, nextId, stats, probe>>

Next == LlmCallFails \/ LlmCall \/ ToolStart \/ ToolResume \/ ToolNodeReturn

Spec == Init /\ [][Next]_vars

(***************************************************************************)
(* Claims about the tool handlers (checked under ToolSpec).                *)
(***************************************************************************)
Settled(tool) == probe.tool = tool /\ probe.phase = "settled"

StartsWith(result, prefix) == result.value # <<>> /\ Head(result.value) = prefix

\* C5: every tool handler returns a string and never throws, whatever its
\* shell commands and its LLM call do: a failing `git add`/`git commit` gives
\* a string starting with the commit-failed marker, a failing `git push` or
\* `git branch --show-current` one starting with the push-failed marker, a
\* failing LLM call one starting with the generate-failed marker, and the
\* success strings are returned only when every shell command of the handler
\* succeeded.
C5_HandlersNeverThrow ==
  /\ probe.result.kind # "throw"
  /\ probe.phase = "settled" =>
       /\ probe.result.kind = "return"
       /\ \A i \in 1..Len(probe.result.value) : probe.result.value[i] \in STRING
  /\ Settled("git_commit") /\ ~probe.sh.commit => StartsWith(probe.result, CommitFailed)
  /\ Settled("git_push") /\ ~probe.sh.push => StartsWith(probe.result, PushFailed)
  /\ Settled("git_push") /\ variant = "index2" /\ ~probe.sh.branch =>
       StartsWith(probe.result, PushFailed)
  /\ Settled("generate_commit_message") /\ probe.llmCalls = 1 /\ ~probe.llmOk =>
       StartsWith(probe.result, GenerateFailed)
  /\ StartsWith(probe.result, CommitOk) => probe.tool = "git_commit" /\ probe.sh.commit
  /\ StartsWith(probe.result, PushOk) =>
       /\ probe.tool = "git_push"
       /\ probe.sh.push
       /\ variant = "index2" => probe.sh.branch

\* a push that failed for want of an upstream has returned its failure string
C5_Witness ==
  /\ Settled("git_push")
  /\ probe.sh.branch /\ ~probe.sh.push
  /\ probe.result = Return(<<PushFailed, "Command failed: ", "git push">>)

\* C7: when the collected text is empty after trimming (as it is for a tree
\* with no staged, unstaged or untracked change), generate_commit_message
\* returns exactly "No changes detected." and issues no LLM call; the LLM is
\* called at most once per invocation, and only on a text that is not empty
\* after trimming.
C7_NoChangesNoLLMCall ==
  probe.tool = "generate_commit_message" =>
    /\ probe.collected /\ Blank(probe.text) =>
         /\ probe.phase = "settled"
         /\ probe.result = Return(NoChanges)
         /\ probe.llmCalls = 0
    /\ probe.before = CleanRepo /\ probe.collected => probe.result = Return(NoChanges)
    /\ probe.llmCalls <= 1
    /\ probe.llmCalls = 1 => probe.collected /\ ~Blank(probe.text)

\* the handler has run on a clean tree and returned the sentinel
C7_Witness ==
  /\ Settled("generate_commit_message")
  /\ probe.before = CleanRepo /\ probe.sh = AllOk
  /\ probe.result = Return(NoChanges) /\ probe.llmCalls = 0

\* The shell commands of one call that failed.
FailedCommands(sh, r) ==
  (IF sh.cached THEN {} ELSE {"git diff --cached"})
    \cup (IF sh.diff THEN {} ELSE {"git diff"})
    \cup (IF sh.ls THEN {} ELSE {"git ls-files"})
    \cup sh.catFail

RECURSIVE BlocksOf(_, _)
BlocksOf(files, skip) ==
  IF files = <<>> THEN <<>>
  ELSE (IF Head(files) \in skip THEN <<>>
        ELSE NewFileBlock(Head(files), Content(Head(files))))
       \o BlocksOf(Tail(files), skip)

\* The contributions of the commands that succeeded, in the collector's order.
Contributions(r, sh) ==
  (IF sh.cached THEN Str(r.staged) ELSE <<>>)
    \o (IF sh.diff THEN Str(r.unstaged) ELSE <<>>)
    \o (IF sh.ls THEN BlocksOf(r.untracked, sh.catFail) ELSE <<>>)

\* C8: in the diff collector the failure of any single shell command is
\* swallowed and counts as an empty contribution: the contributions of the
\* other commands are still collected and passed on, and the tool returns no
\* error string because of that failure.
C8_SingleFailureSwallowed ==
  /\ probe.tool = "generate_commit_message"
  /\ Cardinality(FailedCommands(probe.sh, probe.before)) = 1
  => /\ probe.collected
     /\ probe.text = Contributions(probe.before, probe.sh)
     /\ probe.llmOk => ~StartsWith(probe.result, GenerateFailed)

\* C9: the text the diff collector builds holds the staged diff, then the
\* unstaged diff, then for each untracked file, in the order listed, a block
\* headed `--- New file: f ---` followed by the content of f; a tree whose only
\* changes are unstaged edits does not give the "No changes detected." sentinel.
C9_CollectedText ==
  /\ probe.tool = "generate_commit_message"
  /\ probe.sh = AllOk
  => /\ probe.collected
     /\ probe.text = Str(probe.before.staged) \o Str(probe.before.unstaged)
                       \o BlocksOf(probe.before.untracked, {})
     /\ probe.before.unstaged # "" => probe.result # Return(NoChanges)

(***************************************************************************)
(* Claims about the agent controller (checked under Spec).                 *)
(***************************************************************************)
Last(seq) == seq[Len(seq)]

\* A message with one or more tool-invocation requests.
HasToolCalls(m) == m.tool_calls.defined /\ Len(m.tool_calls.list) >= 1

Registered(i) == calls[i].call.name \in tools(variant)

\* C1: if the first LLM response carries no tool-invocation request, the
\* controller is done after exactly one llmCall step and no tool execution,
\* and the conversation is the initial one followed by exactly one assistant
\* message.
C1_PlainAnswerEndsInOneStep ==
  LET k == Len(input)
  IN Len(messages) > k /\ ~HasToolCalls(messages[k + 1]) =>
       /\ pc = "done"
       /\ messages = input \o <<messages[k + 1]>>
       /\ messages[k + 1].role = "assistant"
       /\ stats = [llm |-> 1, routed |-> 0, execs |-> 0]

\* a two-message conversation has been answered without a tool request
C1_Witness ==
  /\ pc = "done"
  /\ Len(input) = 2
  /\ messages = input \o <<Message("assistant", <<"Done.">>, NoToolCalls, 0)>>
  /\ stats.llm = 1

\* C2: the controller starts in awaiting-llm; after every LLM turn it moves
\* to awaiting-tool if and only if the last message has one or more requests
\* and to done if and only if it has none (tool_calls missing or empty); done
\* is never entered from awaiting-tool, and no tool runs once done is reached.
C2_RoutingByLastMessage ==
  /\ pc = "awaiting-llm"
  /\ [][/\ pc = "awaiting-llm" /\ Len(messages') = Len(messages) + 1 =>
             /\ pc' = "awaiting-tool" <=> HasToolCalls(Last(messages'))
             /\ pc' = "done" <=> ~HasToolCalls(Last(messages'))
        /\ pc' = "done" => pc \in {"awaiting-llm", "done"}
        /\ pc = "done" => pc' = "done" /\ stats' = stats /\ calls' = calls]_vars

\* a run that went through the tool node has ended on a response whose
\* tool_calls is an empty list
C2_Witness ==
  /\ pc = "done"
  /\ stats.routed >= 1
  /\ Last(messages).tool_calls = [defined |-> TRUE, list |-> <<>>]

\* C3: at every return to awaiting-llm the tool node has appended exactly one
\* tool-result message per request of the turn's assistant message, in the
\* order requested, and has run each requested tool of the tools list exactly
\* once (a request that names no tool of the list runs nothing).
C3_OneResultPerRequest ==
  [][pc = "awaiting-tool" /\ pc' = "awaiting-llm" =>
       LET requests == Last(messages).tool_calls.list
           n == Len(messages)
       IN /\ Len(messages') = n + Len(requests)
          /\ SubSeq(messages', 1, n) = messages
          /\ \A i \in 1..Len(requests) :
               /\ messages'[n + i].role = "tool"
               /\ messages'[n + i].tool_call_id = requests[i].id
               /\ calls[i].call = requests[i]
               /\ calls[i].execs = IF Registered(i) THEN 1 ELSE 0]_vars

\* the tool node has returned from a turn of three requests, each run once
C3_Witness ==
  /\ pc = "awaiting-llm"
  /\ stats.routed = 1
  /\ Len(calls) = 3
  /\ Len(messages) = Len(input) + 4
  /\ \A i \in 1..3 : calls[i].execs = 1 /\ Last(messages).role = "tool"

\* C4: the tools requested in one LLM turn run one at a time in the order
\* requested: no tool starts before the previous requested tool has finished
\* and produced its result.
C4_ToolsRunOneAtATime ==
  \A i, j \in 1..Len(calls) :
    i < j /\ calls[j].status # "pending" => calls[i].status = "finished"

\* C6: no failure of a shell command or of an LLM call makes
\* agentBuilder.invoke reject.
C6_NoErrorEscapesInvoke == pc # "failed"

====
